---- MODULE Spec2Model ----
(***************************************************************************)
(* Group management API of the RDFM server (server/src/api/v1/groups.py).  *)
(*                                                                         *)
(* Every HTTP handler is a sequence of calls on the groups store           *)
(* (server.instance._groups_db).  Each store call is one atomic step; the  *)
(* requests of different callers interleave between the store calls of a   *)
(* handler.  The store itself and the policy parser (update.policy) are    *)
(* not part of groups.py: their operators below follow the design          *)
(* document (sections 4.1 to 4.5) and are marked as such.                  *)
(***************************************************************************)
EXTENDS Integers, Sequences, FiniteSets, TLC

\* ---------------------------------------------------------------- bounds
MaxGroups == 2      \* group ids ever allocated by create
NumDevices == 1     \* registered devices 1..NumDevices
NumPackages == 1    \* existing packages 1..NumPackages
NumClients == 2     \* concurrent API callers

GROUP_DEFAULT_PRIORITY == 25

Clients == 1..NumClients
GroupIds == 1..MaxGroups
Devices == 1..NumDevices
\* device ids a request may name: the registered ones and one unknown id
DeviceIds == 1..(NumDevices + 1)
Packages == 1..NumPackages
\* package ids a request may name: the existing ones and one unknown id
PackageIds == 1..(NumPackages + 1)
\* Device.group of a device that has no group
NoGroup == 0

\* request bodies of POST /api/v1/groups
Metadata == {"{}", "{description: A test group}"}
\* values of datetime.datetime.utcnow()
Times == {0}

\* --------------------------------------------------------- policy strings
\* A policy string is the sequence of its lexemes, "," being one of them:
\* "exact_match,v1" is <<"exact_match", ",", "v1">>.
DefaultPolicy == <<"no_update", ",">>
PolicyTexts ==
    { <<"no_update", ",">>,
      <<"exact_match", ",", "v1">>,
      <<"exact_match">>,
      <<"exact_match", ",">>,
      <<"bogus">>,
      <<"bogus_kind", ",", "x">> }

\* the fields of a string between its commas, each a sequence of lexemes
RECURSIVE SplitComma(_)
SplitComma(text) ==
    IF text = <<>> THEN << <<>> >>
    ELSE IF Head(text) = "," THEN << <<>> >> \o SplitComma(Tail(text))
    ELSE LET rest == SplitComma(Tail(text))
         IN  << <<Head(text)>> \o Head(rest) >> \o Tail(rest)

\* registry of policy kinds: name -> number of arguments
PolicyKinds == [no_update |-> 0, exact_match |-> 1]

\* Compile without the test of the number of arguments
Compile_any_arity(text) ==
    LET fields == SplitComma(text)
        kind   == Head(fields)
        args   == SelectSeq(Tail(fields), LAMBDA f : f /= <<>>)
    IN  IF Len(kind) /= 1 \/ kind[1] \notin DOMAIN PolicyKinds
        THEN [ok |-> FALSE, reason |-> "unknown policy kind"]
        ELSE [ok |-> TRUE, kind |-> kind[1], args |-> args]

\* update.policy.create: the compiled policy, or the reason of the failure
Compile(text) ==
    LET fields == SplitComma(text)
        kind   == Head(fields)
        args   == SelectSeq(Tail(fields), LAMBDA f : f /= <<>>)
    IN  IF Len(kind) /= 1 \/ kind[1] \notin DOMAIN PolicyKinds
        THEN [ok |-> FALSE, reason |-> "unknown policy kind"]
        ELSE IF Len(args) /= PolicyKinds[kind[1]]
        THEN [ok |-> FALSE, reason |-> "wrong number of arguments"]
        ELSE [ok |-> TRUE, kind |-> kind[1], args |-> args]

\* ------------------------------------------------------------------ state
VARIABLES
    groups,             \* groups table: id -> [created, info, policy, priority]
    assigned_packages,  \* package assignment of each group: id -> set of ids
    device_group,       \* Device.group of every registered device
    next_id,            \* next id the groups table allocates
    pc,                 \* position of each caller inside its handler
    local,              \* local variables of each caller's handler
    response,           \* the response a handler has just returned
    instants            \* the states of the store during each caller's read

vars == <<groups, assigned_packages, device_group, next_id, pc, local,
          response, instants>>
store == <<groups, assigned_packages, device_group, next_id>>

\* the store as one value, for the snapshots kept in a response
Snapshot ==
    [groups |-> groups, assigned_packages |-> assigned_packages,
     device_group |-> device_group]

NoResponse == [op |-> "none"]
Idle == [identifier |-> 0, group |-> {}]

\* Optional[models.group.Group]: {} is None, {row} a fetched row
IsNone(group) == group = {}

\* ----------------------------------------------------- the groups store
\* _groups_db.fetch_one(identifier)
fetch_one_db(identifier) ==
    IF identifier \in DOMAIN groups
    THEN {[id |-> identifier] @@ groups[identifier]}
    ELSE {}

\* _groups_db.fetch_assigned(identifier): the devices of a group
fetch_assigned(identifier) ==
    {d \in Devices : device_group[d] = identifier}

\* _groups_db.fetch_assigned_packages(identifier)
fetch_assigned_packages(identifier) ==
    IF identifier \in DOMAIN assigned_packages
    THEN assigned_packages[identifier]
    ELSE {}

\* delete that never looks at the devices of the group
delete_success_unchecked(identifier) == TRUE

\* _groups_db.delete(identifier): FALSE when devices are still assigned
delete_success(identifier) == fetch_assigned(identifier) = {}

\* the tables once the group record is removed
delete_groups(identifier) ==
    [g \in DOMAIN groups \ {identifier} |-> groups[g]]

delete_packages(identifier) ==
    [g \in DOMAIN assigned_packages \ {identifier} |-> assigned_packages[g]]

ErrNone == "None"

\* modify_assignment_err checking the removals against the additions done
modify_assignment_err_after_additions(identifier, add, remove) ==
    IF identifier \notin DOMAIN groups
    THEN "group does not exist"
    ELSE IF \E d \in add \cup remove : d \notin Devices
    THEN "device does not exist"
    ELSE IF \E d \in add : device_group[d] /= NoGroup
    THEN "device already assigned to a group"
    ELSE IF \E d \in remove \ add : device_group[d] /= identifier
    THEN "device not currently assigned to this group"
    ELSE ErrNone

\* modify_assignment_apply without the removals
modify_assignment_apply_additions_only(identifier, add, remove) ==
    [d \in Devices |-> IF d \in add THEN identifier ELSE device_group[d]]

\* _groups_db.modify_assignment(identifier, add, remove): the error, or None
modify_assignment_err(identifier, add, remove) ==
    IF identifier \notin DOMAIN groups
    THEN "group does not exist"
    ELSE IF \E d \in add \cup remove : d \notin Devices
    THEN "device does not exist"
    ELSE IF \E d \in add : device_group[d] /= NoGroup
    THEN "device already assigned to a group"
    ELSE IF \E d \in remove : device_group[d] /= identifier
    THEN "device not currently assigned to this group"
    ELSE ErrNone

\* Device.group of every device once the additions, then the removals, are done
modify_assignment_apply(identifier, add, remove) ==
    LET added == [d \in Devices |->
                    IF d \in add THEN identifier ELSE device_group[d]]
    IN  [d \in Devices |-> IF d \in remove THEN NoGroup ELSE added[d]]

\* _groups_db.modify_package(identifier, packages): the error, or None
modify_package_err(identifier, packages) ==
    IF identifier \notin DOMAIN groups
    THEN "group was modified or deleted"
    ELSE IF \E i \in 1..Len(packages) : packages[i] \notin Packages
    THEN "package was modified or deleted"
    ELSE ErrNone

\* modify_package_apply adding to the group's set
modify_package_apply_union(identifier, packages) ==
    [assigned_packages EXCEPT
        ![identifier] = @ \cup {packages[i] : i \in 1..Len(packages)}]

\* modify_package_apply replacing the set of every group
modify_package_apply_every_group(identifier, packages) ==
    [g \in DOMAIN assigned_packages |->
        {packages[i] : i \in 1..Len(packages)}]

\* the package assignments once the group's set is replaced
modify_package_apply(identifier, packages) ==
    [assigned_packages EXCEPT
        ![identifier] = {packages[i] : i \in 1..Len(packages)}]

\* _groups_db.update_policy(identifier, policy): the groups table afterwards
update_policy_db(identifier, policy) ==
    IF identifier \in DOMAIN groups
    THEN [groups EXCEPT ![identifier].policy = policy]
    ELSE groups

\* _groups_db.fetch_all(): the rows of the groups table, by id
RECURSIVE rows_from(_)
rows_from(ids) ==
    IF ids = {} THEN <<>>
    ELSE LET least == CHOOSE i \in ids : \A j \in ids : i <= j
         IN  <<[id |-> least] @@ groups[least]>> \o rows_from(ids \ {least})

fetch_all_db == rows_from(DOMAIN groups)

\* model_to_schema: the Group schema of a row, its packages and its devices
Group(row, packages, devices) ==
    [id |-> row.id, created |-> row.created, packages |-> packages,
     devices |-> devices, metadata |-> row.info, policy |-> row.policy]

\* ------------------------------------------------------------- handlers
Ready(c) == pc[c] = "idle" /\ response = NoResponse

Return(c, r) ==
    /\ response' = [client |-> c, pre |-> Snapshot] @@ r
    /\ pc' = [pc EXCEPT ![c] = "idle"]
    /\ local' = [local EXCEPT ![c] = Idle]

\* positions of a caller inside fetch_one and fetch_all
ReadPcs == {"fetch_one_packages", "fetch_one_devices",
            "fetch_all_packages", "fetch_all_devices"}
ReadOps == {"fetch_one", "fetch_all"}

\* the caller is between the first store call of a read and its response
IsReading(c) ==
    \/ pc[c] \in ReadPcs
    \/ response.op \in ReadOps /\ response.client = c

\* the caller reads one group, not the list
ReadsOne(c) ==
    \/ pc[c] \in {"fetch_one_packages", "fetch_one_devices"}
    \/ response.op = "fetch_one"

\* the fields of the Group schema that a row holds
RowView(row) ==
    [id |-> row.id, created |-> row.created, metadata |-> row.info,
     policy |-> row.policy]

\* what the caller has read so far: one record per group, holding the
\* fields already fetched (no record for a group that was not found)
Read(c) ==
    IF pc[c] = "fetch_one_packages"
    THEN <<RowView(CHOOSE g \in local[c].group : TRUE)>>
    ELSE IF pc[c] = "fetch_one_devices"
    THEN <<[packages |-> local[c].packages]
           @@ RowView(CHOOSE g \in local[c].group : TRUE)>>
    ELSE IF pc[c] \in {"fetch_all_packages", "fetch_all_devices"}
    THEN [i \in 1..Len(local[c].rows) |->
             IF i <= Len(local[c].body) THEN local[c].body[i]
             ELSE IF i = Len(local[c].body) + 1
                     /\ pc[c] = "fetch_all_devices"
             THEN [packages |-> local[c].packages]
                  @@ RowView(local[c].rows[i])
             ELSE RowView(local[c].rows[i])]
    ELSE IF response.op = "fetch_all" THEN response.body
    ELSE IF response.status = 200 THEN <<response.body>>
    ELSE <<>>

\* what the store holds now of what the caller reads: the Group schema of
\* the requested group, or of every group
Seen(c) ==
    LET rows == IF ReadsOne(c)
                THEN LET identifier ==
                             IF pc[c] \in ReadPcs THEN local[c].identifier
                             ELSE response.identifier
                     IN  IF identifier \in DOMAIN groups
                         THEN <<[id |-> identifier] @@ groups[identifier]>>
                         ELSE <<>>
                ELSE fetch_all_db
    IN  [i \in 1..Len(rows) |->
            Group(rows[i], fetch_assigned_packages(rows[i].id),
                  fetch_assigned(rows[i].id))]

\* a state of the store agrees with what has been read so far
Agrees(seen, read) ==
    /\ Len(seen) = Len(read)
    /\ \A i \in 1..Len(read) :
           \A field \in DOMAIN read[i] : seen[i][field] = read[i][field]

\* the callers in DOMAIN instants have their reads watched: for each of them
\* instants[c] holds, of the states the store went through between the
\* first store call of c's read and now, those that agree with what c has
\* read so far; a state that disagrees can never be the one c returns
Track ==
    instants' = [c \in DOMAIN instants |->
        IF IsReading(c)'
        THEN {seen \in (IF pc[c] \in ReadPcs THEN instants[c] ELSE {})
                       \cup {Seen(c)'} : Agrees(seen, Read(c)')}
        ELSE {}]

\* the response has been sent to the caller
send_response ==
    /\ response /= NoResponse
    /\ response' = NoResponse
    /\ UNCHANGED <<store, pc, local>>
    /\ Track

\* create storing empty metadata whatever the request holds
create_without_metadata(c, metadata, now) ==
    /\ Ready(c)
    /\ next_id <= MaxGroups
    /\ LET group == [created |-> now, info |-> "{}",
                     policy |-> DefaultPolicy,
                     priority |-> GROUP_DEFAULT_PRIORITY]
       IN  /\ groups' = (next_id :> group) @@ groups
           /\ assigned_packages' = (next_id :> {}) @@ assigned_packages
           /\ local' = [local EXCEPT ![c] =
                  [identifier |-> next_id,
                   group |-> {[id |-> next_id] @@ group},
                   metadata |-> metadata]]
    /\ next_id' = next_id + 1
    /\ pc' = [pc EXCEPT ![c] = "create_packages"]
    /\ UNCHANGED <<device_group, response>>
    /\ Track

\* POST /api/v1/groups: the new row is inserted
create(c, metadata, now) ==
    /\ Ready(c)
    /\ next_id <= MaxGroups
    /\ LET group == [created |-> now, info |-> metadata,
                     policy |-> DefaultPolicy,
                     priority |-> GROUP_DEFAULT_PRIORITY]
       IN  /\ groups' = (next_id :> group) @@ groups
           /\ assigned_packages' = (next_id :> {}) @@ assigned_packages
           /\ local' = [local EXCEPT ![c] =
                  [identifier |-> next_id,
                   group |-> {[id |-> next_id] @@ group},
                   metadata |-> metadata]]
    /\ next_id' = next_id + 1
    /\ pc' = [pc EXCEPT ![c] = "create_packages"]
    /\ UNCHANGED <<device_group, response>>
    /\ Track

\* model_to_schema(group).packages of the created group
create_packages(c) ==
    /\ pc[c] = "create_packages" /\ response = NoResponse
    /\ local' = [local EXCEPT ![c] =
           [packages |-> fetch_assigned_packages(local[c].identifier)]
           @@ local[c]]
    /\ pc' = [pc EXCEPT ![c] = "create_devices"]
    /\ UNCHANGED <<store, response>>
    /\ Track

\* model_to_schema(group).devices of the created group, and the response
create_devices(c) ==
    /\ pc[c] = "create_devices" /\ response = NoResponse
    /\ LET group == CHOOSE g \in local[c].group : TRUE
       IN  Return(c, [op |-> "create", status |-> 200,
                      identifier |-> local[c].identifier,
                      request |-> local[c].metadata,
                      body |-> [id |-> group.id,
                                created |-> group.created,
                                packages |-> local[c].packages,
                                devices |-> fetch_assigned(group.id),
                                metadata |-> group.info,
                                policy |-> group.policy]])
    /\ UNCHANGED store
    /\ Track

\* DELETE /api/v1/groups/<identifier>: the group is fetched
delete_one(c, identifier) ==
    /\ Ready(c)
    /\ LET group == fetch_one_db(identifier)
       IN  IF IsNone(group)
           THEN Return(c, [op |-> "delete_one", status |-> 404,
                           identifier |-> identifier, group |-> group])
           ELSE /\ pc' = [pc EXCEPT ![c] = "delete_one_delete"]
                /\ local' = [local EXCEPT ![c] =
                       [identifier |-> identifier, group |-> group]]
                /\ UNCHANGED response
    /\ UNCHANGED store
    /\ Track

\* delete_one_delete without the test of success
delete_one_delete_unchecked(c) ==
    /\ pc[c] = "delete_one_delete" /\ response = NoResponse
    /\ LET identifier == local[c].identifier
           success    == delete_success(identifier)
       IN  /\ IF success
              THEN /\ groups' = delete_groups(identifier)
                   /\ assigned_packages' = delete_packages(identifier)
              ELSE UNCHANGED <<groups, assigned_packages>>
           /\ Return(c, [op |-> "delete_one", status |-> 200,
                         identifier |-> identifier,
                         group |-> local[c].group])
           /\ UNCHANGED <<device_group, next_id>>
    /\ Track

\* DELETE /api/v1/groups/<identifier>: the group is deleted
delete_one_delete(c) ==
    /\ pc[c] = "delete_one_delete" /\ response = NoResponse
    /\ LET identifier == local[c].identifier
           success    == delete_success(identifier)
       IN  IF ~success
           THEN /\ Return(c, [op |-> "delete_one", status |-> 409,
                              identifier |-> identifier,
                              group |-> local[c].group])
                /\ UNCHANGED store
           ELSE /\ groups' = delete_groups(identifier)
                /\ assigned_packages' = delete_packages(identifier)
                /\ Return(c, [op |-> "delete_one", status |-> 200,
                              identifier |-> identifier,
                              group |-> local[c].group])
                /\ UNCHANGED <<device_group, next_id>>
    /\ Track

\* PATCH /api/v1/groups/<identifier>/devices: the group is fetched
change_assigned(c, identifier) ==
    /\ Ready(c)
    /\ LET group == fetch_one_db(identifier)
       IN  IF IsNone(group)
           THEN Return(c, [op |-> "change_assigned", status |-> 404,
                           identifier |-> identifier, group |-> group])
           ELSE /\ pc' = [pc EXCEPT ![c] = "change_assigned_modify"]
                /\ local' = [local EXCEPT ![c] =
                       [identifier |-> identifier, group |-> group]]
                /\ UNCHANGED response
    /\ UNCHANGED store
    /\ Track

\* change_assigned_modify with the test of err inverted
change_assigned_modify_err_inverted(c, instructions) ==
    /\ pc[c] = "change_assigned_modify" /\ response = NoResponse
    /\ LET identifier == local[c].identifier
           err == modify_assignment_err(identifier, instructions.add,
                                        instructions.remove)
           r   == [op |-> "change_assigned", identifier |-> identifier,
                   group |-> local[c].group,
                   add |-> instructions.add, remove |-> instructions.remove]
       IN  IF err = ErrNone
           THEN /\ device_group' = modify_assignment_apply(identifier,
                        instructions.add, instructions.remove)
                /\ Return(c, [status |-> 409, error |-> err] @@ r)
                /\ UNCHANGED <<groups, assigned_packages, next_id>>
           ELSE /\ Return(c, [status |-> 200] @@ r)
                /\ UNCHANGED store
    /\ Track

\* change_assigned_modify answering 404 to an error of modify_assignment
change_assigned_modify_404(c, instructions) ==
    /\ pc[c] = "change_assigned_modify" /\ response = NoResponse
    /\ LET identifier == local[c].identifier
           err == modify_assignment_err(identifier, instructions.add,
                                        instructions.remove)
           r   == [op |-> "change_assigned", identifier |-> identifier,
                   group |-> local[c].group,
                   add |-> instructions.add, remove |-> instructions.remove]
       IN  IF err /= ErrNone
           THEN /\ Return(c, [status |-> 404, error |-> err] @@ r)
                /\ UNCHANGED store
           ELSE /\ device_group' = modify_assignment_apply(identifier,
                        instructions.add, instructions.remove)
                /\ Return(c, [status |-> 200] @@ r)
                /\ UNCHANGED <<groups, assigned_packages, next_id>>
    /\ Track

\* PATCH /api/v1/groups/<identifier>/devices: the assignment is modified.
\* instructions is the request body; nothing before this call reads it.
change_assigned_modify(c, instructions) ==
    /\ pc[c] = "change_assigned_modify" /\ response = NoResponse
    /\ LET identifier == local[c].identifier
           err == modify_assignment_err(identifier, instructions.add,
                                        instructions.remove)
           r   == [op |-> "change_assigned", identifier |-> identifier,
                   group |-> local[c].group,
                   add |-> instructions.add, remove |-> instructions.remove]
       IN  IF err /= ErrNone
           THEN /\ Return(c, [status |-> 409, error |-> err] @@ r)
                /\ UNCHANGED store
           ELSE /\ device_group' = modify_assignment_apply(identifier,
                        instructions.add, instructions.remove)
                /\ Return(c, [status |-> 200] @@ r)
                /\ UNCHANGED <<groups, assigned_packages, next_id>>
    /\ Track

AssignDeviceRequest ==
    [add : SUBSET DeviceIds, remove : SUBSET DeviceIds]

\* POST /api/v1/groups/<identifier>/package: the group is fetched
assign_package(c, identifier) ==
    /\ Ready(c)
    /\ LET group == fetch_one_db(identifier)
       IN  IF IsNone(group)
           THEN Return(c, [op |-> "assign_package", status |-> 404,
                           identifier |-> identifier, group |-> group])
           ELSE /\ pc' = [pc EXCEPT ![c] = "assign_package_modify"]
                /\ local' = [local EXCEPT ![c] =
                       [identifier |-> identifier, group |-> group]]
                /\ UNCHANGED response
    /\ UNCHANGED store
    /\ Track

\* POST /api/v1/groups/<identifier>/package: the packages are replaced.
\* assign_package_modify answering 404 to an error of the store
assign_package_modify_404(c, assignment) ==
    /\ pc[c] = "assign_package_modify" /\ response = NoResponse
    /\ LET identifier == local[c].identifier
           err == modify_package_err(identifier, assignment.packages)
           r   == [op |-> "assign_package", identifier |-> identifier,
                   group |-> local[c].group,
                   packages |-> assignment.packages]
       IN  IF err /= ErrNone
           THEN /\ Return(c, [status |-> 404, error |-> err] @@ r)
                /\ UNCHANGED store
           ELSE /\ assigned_packages' =
                       modify_package_apply(identifier, assignment.packages)
                /\ Return(c, [status |-> 200] @@ r)
                /\ UNCHANGED <<groups, device_group, next_id>>
    /\ Track

\* assignment is the request body; nothing before this call reads it.
assign_package_modify(c, assignment) ==
    /\ pc[c] = "assign_package_modify" /\ response = NoResponse
    /\ LET identifier == local[c].identifier
           err == modify_package_err(identifier, assignment.packages)
           r   == [op |-> "assign_package", identifier |-> identifier,
                   group |-> local[c].group,
                   packages |-> assignment.packages]
       IN  IF err /= ErrNone
           THEN /\ Return(c, [status |-> 409, error |-> err] @@ r)
                /\ UNCHANGED store
           ELSE /\ assigned_packages' =
                       modify_package_apply(identifier, assignment.packages)
                /\ Return(c, [status |-> 200] @@ r)
                /\ UNCHANGED <<groups, device_group, next_id>>
    /\ Track

\* sequences of package ids of length at most 2
AssignPackageRequest ==
    [packages : {<<>>} \cup {<<p>> : p \in PackageIds}
                \cup {<<p, q>> : p \in PackageIds, q \in PackageIds}]

\* update_policy without the test that the group exists
update_policy_unchecked(c, identifier) ==
    /\ Ready(c)
    /\ pc' = [pc EXCEPT ![c] = "update_policy_update"]
    /\ local' = [local EXCEPT ![c] =
           [identifier |-> identifier, group |-> {}]]
    /\ UNCHANGED response
    /\ UNCHANGED store
    /\ Track

\* POST /api/v1/groups/<identifier>/policy: the group is fetched
update_policy(c, identifier) ==
    /\ Ready(c)
    /\ IF IsNone(fetch_one_db(identifier))
       THEN Return(c, [op |-> "update_policy", status |-> 404,
                       identifier |-> identifier])
       ELSE /\ pc' = [pc EXCEPT ![c] = "update_policy_update"]
            /\ local' = [local EXCEPT ![c] =
                   [identifier |-> identifier, group |-> {}]]
            /\ UNCHANGED response
    /\ UNCHANGED store
    /\ Track

\* update_policy_update without the call of the parser
update_policy_update_unvalidated(c, policy_request) ==
    /\ pc[c] = "update_policy_update" /\ response = NoResponse
    /\ LET identifier == local[c].identifier
           policy == policy_request.policy
           r   == [op |-> "update_policy", identifier |-> identifier,
                   policy |-> policy]
       IN  /\ groups' = update_policy_db(identifier, policy)
           /\ Return(c, [status |-> 200] @@ r)
           /\ UNCHANGED <<assigned_packages, device_group, next_id>>
    /\ Track

\* update_policy_update storing the policy before the parser is called
update_policy_update_store_first(c, policy_request) ==
    /\ pc[c] = "update_policy_update" /\ response = NoResponse
    /\ LET identifier == local[c].identifier
           policy == policy_request.policy
           r   == [op |-> "update_policy", identifier |-> identifier,
                   policy |-> policy]
       IN  /\ groups' = update_policy_db(identifier, policy)
           /\ IF ~Compile(policy).ok
              THEN Return(c, [status |-> 400,
                              error |-> Compile(policy).reason] @@ r)
              ELSE Return(c, [status |-> 200] @@ r)
           /\ UNCHANGED <<assigned_packages, device_group, next_id>>
    /\ Track

\* POST /api/v1/groups/<identifier>/policy: the policy is parsed and stored.
\* policy_request is the request body; nothing before the parser reads it.
update_policy_update(c, policy_request) ==
    /\ pc[c] = "update_policy_update" /\ response = NoResponse
    /\ LET identifier == local[c].identifier
           policy == policy_request.policy
           r   == [op |-> "update_policy", identifier |-> identifier,
                   policy |-> policy]
       IN  IF ~Compile(policy).ok
           THEN /\ Return(c, [status |-> 400,
                              error |-> Compile(policy).reason] @@ r)
                /\ UNCHANGED store
           ELSE /\ groups' = update_policy_db(identifier, policy)
                /\ Return(c, [status |-> 200] @@ r)
                /\ UNCHANGED <<assigned_packages, device_group, next_id>>
    /\ Track

AssignPolicyRequest == [policy : PolicyTexts]

\* GET /api/v1/groups/<identifier>: the group is fetched
fetch_one(c, identifier) ==
    /\ Ready(c)
    /\ LET group == fetch_one_db(identifier)
       IN  IF IsNone(group)
           THEN Return(c, [op |-> "fetch_one", status |-> 404,
                           identifier |-> identifier, group |-> group])
           ELSE /\ pc' = [pc EXCEPT ![c] = "fetch_one_packages"]
                /\ local' = [local EXCEPT ![c] =
                       [identifier |-> identifier, group |-> group]]
                /\ UNCHANGED response
    /\ UNCHANGED store
    /\ Track

\* GET /api/v1/groups/<identifier>: model_to_schema(group).packages
fetch_one_packages(c) ==
    /\ pc[c] = "fetch_one_packages" /\ response = NoResponse
    /\ local' = [local EXCEPT ![c] =
           [packages |-> fetch_assigned_packages(local[c].identifier)]
           @@ local[c]]
    /\ pc' = [pc EXCEPT ![c] = "fetch_one_devices"]
    /\ UNCHANGED <<store, response>>
    /\ Track

\* GET /api/v1/groups/<identifier>: model_to_schema(group).devices, response
fetch_one_devices(c) ==
    /\ pc[c] = "fetch_one_devices" /\ response = NoResponse
    /\ LET group == CHOOSE g \in local[c].group : TRUE
       IN  Return(c, [op |-> "fetch_one", status |-> 200,
                      identifier |-> local[c].identifier,
                      group |-> local[c].group,
                      body |-> Group(group, local[c].packages,
                                     fetch_assigned(group.id))])
    /\ UNCHANGED store
    /\ Track

\* GET /api/v1/groups: the groups are fetched
fetch_all(c) ==
    /\ Ready(c)
    /\ LET rows == fetch_all_db
       IN  IF rows = <<>>
           THEN Return(c, [op |-> "fetch_all", status |-> 200,
                           body |-> <<>>])
           ELSE /\ pc' = [pc EXCEPT ![c] = "fetch_all_packages"]
                /\ local' = [local EXCEPT ![c] =
                       [identifier |-> 0, group |-> {},
                        rows |-> rows, body |-> <<>>]]
                /\ UNCHANGED response
    /\ UNCHANGED store
    /\ Track

\* GET /api/v1/groups: model_to_schema(group).packages of the next row
fetch_all_packages(c) ==
    /\ pc[c] = "fetch_all_packages" /\ response = NoResponse
    /\ LET group == local[c].rows[Len(local[c].body) + 1]
       IN  local' = [local EXCEPT ![c] =
               [packages |-> fetch_assigned_packages(group.id)]
               @@ local[c]]
    /\ pc' = [pc EXCEPT ![c] = "fetch_all_devices"]
    /\ UNCHANGED <<store, response>>
    /\ Track

\* GET /api/v1/groups: model_to_schema(group).devices of the row; the
\* response once every row has its schema
fetch_all_devices(c) ==
    /\ pc[c] = "fetch_all_devices" /\ response = NoResponse
    /\ LET group == local[c].rows[Len(local[c].body) + 1]
           body  == Append(local[c].body,
                           Group(group, local[c].packages,
                                 fetch_assigned(group.id)))
       IN  IF Len(body) < Len(local[c].rows)
           THEN /\ pc' = [pc EXCEPT ![c] = "fetch_all_packages"]
                /\ local' = [local EXCEPT ![c] =
                       [identifier |-> 0, group |-> {},
                        rows |-> local[c].rows, body |-> body]]
                /\ UNCHANGED response
           ELSE Return(c, [op |-> "fetch_all", status |-> 200,
                           body |-> body])
    /\ UNCHANGED store
    /\ Track

Init ==
    /\ groups = <<>>
    /\ assigned_packages = <<>>
    /\ device_group = [d \in Devices |-> NoGroup]
    /\ next_id = 1
    /\ pc = [c \in Clients |-> "idle"]
    /\ local = [c \in Clients |-> Idle]
    /\ response = NoResponse
    /\ instants = <<>>

\* the store once MaxGroups groups have been created, before any other call
InitCreated ==
    /\ groups \in [GroupIds -> [created : Times, info : {"{}"},
                                policy : {DefaultPolicy},
                                priority : {GROUP_DEFAULT_PRIORITY}]]
    /\ assigned_packages = [g \in GroupIds |-> {}]
    /\ device_group = [d \in Devices |-> NoGroup]
    /\ next_id = MaxGroups + 1
    /\ pc = [c \in Clients |-> "idle"]
    /\ local = [c \in Clients |-> Idle]
    /\ response = NoResponse
    /\ instants = <<>>

\* group deletion and device assignment
NextMembership ==
    \/ send_response
    \/ \E c \in Clients, identifier \in GroupIds : delete_one(c, identifier)
    \/ \E c \in Clients : delete_one_delete(c)
    \/ \E c \in Clients, identifier \in GroupIds :
           change_assigned(c, identifier)
    \/ \E c \in Clients, instructions \in AssignDeviceRequest :
           change_assigned_modify(c, instructions)

SpecMembership == InitCreated /\ [][NextMembership]_vars

\* group creation, deletion and policy assignment
NextPolicy ==
    \/ send_response
    \/ \E c \in Clients, metadata \in {"{}"}, now \in Times :
           create(c, metadata, now)
    \/ \E c \in Clients : create_packages(c)
    \/ \E c \in Clients : create_devices(c)
    \/ \E c \in Clients, identifier \in GroupIds : delete_one(c, identifier)
    \/ \E c \in Clients : delete_one_delete(c)
    \/ \E c \in Clients, identifier \in GroupIds :
           update_policy(c, identifier)
    \/ \E c \in Clients, policy_request \in AssignPolicyRequest :
           update_policy_update(c, policy_request)

SpecPolicy == Init /\ [][NextPolicy]_vars

\* group creation, deletion, package and policy assignment
NextPackages ==
    \/ send_response
    \/ \E c \in Clients, metadata \in {"{}"}, now \in Times :
           create(c, metadata, now)
    \/ \E c \in Clients : create_packages(c)
    \/ \E c \in Clients : create_devices(c)
    \/ \E c \in Clients, identifier \in GroupIds : delete_one(c, identifier)
    \/ \E c \in Clients : delete_one_delete(c)
    \/ \E c \in Clients, identifier \in GroupIds :
           assign_package(c, identifier)
    \/ \E c \in Clients, assignment \in AssignPackageRequest :
           assign_package_modify(c, assignment)
    \/ \E c \in Clients, identifier \in GroupIds :
           update_policy(c, identifier)
    \/ \E c \in Clients,
          policy_request \in [policy : {DefaultPolicy,
                                        <<"exact_match", ",", "v1">>}] :
           update_policy_update(c, policy_request)

SpecPackages == Init /\ [][NextPackages]_vars

\* every operation of the API that changes the store
Next ==
    \/ send_response
    \/ \E c \in Clients, metadata \in {"{}"}, now \in Times :
           create(c, metadata, now)
    \/ \E c \in Clients : create_packages(c)
    \/ \E c \in Clients : create_devices(c)
    \/ \E c \in Clients, identifier \in GroupIds : delete_one(c, identifier)
    \/ \E c \in Clients : delete_one_delete(c)
    \/ \E c \in Clients, identifier \in GroupIds :
           change_assigned(c, identifier)
    \/ \E c \in Clients, instructions \in AssignDeviceRequest :
           change_assigned_modify(c, instructions)
    \/ \E c \in Clients, identifier \in GroupIds :
           assign_package(c, identifier)
    \/ \E c \in Clients, assignment \in AssignPackageRequest :
           assign_package_modify(c, assignment)
    \/ \E c \in Clients, identifier \in GroupIds :
           update_policy(c, identifier)
    \/ \E c \in Clients, policy_request \in AssignPolicyRequest :
           update_policy_update(c, policy_request)

Spec == Init /\ [][Next]_vars

\* every call on the groups that exist: the reads and the calls that change
\* a group
NextGroup ==
    \/ send_response
    \/ \E c \in Clients, identifier \in GroupIds : fetch_one(c, identifier)
    \/ \E c \in Clients : fetch_one_packages(c)
    \/ \E c \in Clients : fetch_one_devices(c)
    \/ \E c \in Clients : fetch_all(c)
    \/ \E c \in Clients : fetch_all_packages(c)
    \/ \E c \in Clients : fetch_all_devices(c)
    \/ \E c \in Clients, identifier \in GroupIds : delete_one(c, identifier)
    \/ \E c \in Clients : delete_one_delete(c)
    \/ \E c \in Clients, identifier \in GroupIds :
           change_assigned(c, identifier)
    \/ \E c \in Clients, instructions \in AssignDeviceRequest :
           change_assigned_modify(c, instructions)
    \/ \E c \in Clients, identifier \in GroupIds :
           assign_package(c, identifier)
    \/ \E c \in Clients, assignment \in AssignPackageRequest :
           assign_package_modify(c, assignment)
    \/ \E c \in Clients, identifier \in GroupIds :
           update_policy(c, identifier)
    \/ \E c \in Clients, policy_request \in AssignPolicyRequest :
           update_policy_update(c, policy_request)

SpecGroup == InitCreated /\ [][NextGroup]_vars

\* the store of InitCreated, with the reads of every caller watched
InitRead ==
    /\ groups \in [GroupIds -> [created : Times, info : {"{}"},
                                policy : {DefaultPolicy},
                                priority : {GROUP_DEFAULT_PRIORITY}]]
    /\ assigned_packages = [g \in GroupIds |-> {}]
    /\ device_group = [d \in Devices |-> NoGroup]
    /\ next_id = MaxGroups + 1
    /\ pc = [c \in Clients |-> "idle"]
    /\ local = [c \in Clients |-> Idle]
    /\ response = NoResponse
    /\ instants = [c \in Clients |-> {}]

\* watched reads next to group deletion, package and policy assignment
NextRead ==
    \/ send_response
    \/ \E c \in Clients, identifier \in GroupIds : fetch_one(c, identifier)
    \/ \E c \in Clients : fetch_one_packages(c)
    \/ \E c \in Clients : fetch_one_devices(c)
    \/ \E c \in Clients : fetch_all(c)
    \/ \E c \in Clients : fetch_all_packages(c)
    \/ \E c \in Clients : fetch_all_devices(c)
    \/ \E c \in Clients, identifier \in GroupIds : delete_one(c, identifier)
    \/ \E c \in Clients : delete_one_delete(c)
    \/ \E c \in Clients, identifier \in GroupIds :
           assign_package(c, identifier)
    \/ \E c \in Clients, assignment \in AssignPackageRequest :
           assign_package_modify(c, assignment)
    \/ \E c \in Clients, identifier \in GroupIds :
           update_policy(c, identifier)
    \/ \E c \in Clients,
          policy_request \in [policy : {DefaultPolicy,
                                        <<"exact_match", ",", "v1">>}] :
           update_policy_update(c, policy_request)

SpecRead == InitRead /\ [][NextRead]_vars

\* package assignment and group deletion
NextAssign ==
    \/ send_response
    \/ \E c \in Clients, identifier \in GroupIds : delete_one(c, identifier)
    \/ \E c \in Clients : delete_one_delete(c)
    \/ \E c \in Clients, identifier \in GroupIds :
           assign_package(c, identifier)
    \/ \E c \in Clients, assignment \in AssignPackageRequest :
           assign_package_modify(c, assignment)

SpecAssign == InitCreated /\ [][NextAssign]_vars

\* group creation with every metadata, device assignment and deletion
NextCreate ==
    \/ send_response
    \/ \E c \in Clients, metadata \in Metadata, now \in Times :
           create(c, metadata, now)
    \/ \E c \in Clients : create_packages(c)
    \/ \E c \in Clients : create_devices(c)
    \/ \E c \in Clients, identifier \in GroupIds : delete_one(c, identifier)
    \/ \E c \in Clients : delete_one_delete(c)
    \/ \E c \in Clients, identifier \in GroupIds :
           change_assigned(c, identifier)
    \/ \E c \in Clients, instructions \in AssignDeviceRequest :
           change_assigned_modify(c, instructions)

SpecCreate == Init /\ [][NextCreate]_vars

\* ----------------------------------------------------------------- claims
\* the response comes from the second store call of change_assigned
ModifyResponse ==
    response.op = "change_assigned" /\ "add" \in DOMAIN response

\* the devices of group g in the store s
DevicesOf(s, g) == {d \in Devices : s.device_group[d] = g}

\* an id of the request fails a check of the membership change
FailsValidation(s, g, add, remove) ==
    \/ \E d \in add \cup remove : d \notin Devices
    \/ \E d \in add \cap Devices : s.device_group[d] /= NoGroup
    \/ \E d \in remove \cap Devices : s.device_group[d] /= g

\* C2: a membership change on a fetched group in which any id fails
\* validation is answered 409 and leaves Device.group of every device as it
\* was before the call.
C2_FailedMembershipChangesNothing ==
    ( /\ ModifyResponse
      /\ FailsValidation(response.pre, response.identifier,
                         response.add, response.remove) )
    => /\ response.status = 409
       /\ device_group = response.pre.device_group

\* a rejected batch that names a device which passes validation on its own
C2_Witness ==
    /\ ModifyResponse
    /\ response.status = 409
    /\ response.identifier \in DOMAIN response.pre.groups
    /\ \E d \in response.add \cap Devices :
           /\ response.pre.device_group[d] = NoGroup
           /\ d \notin response.remove
    /\ \E d \in response.add \cup response.remove : d \notin Devices

\* C4: a membership change on a fetched group whose additions name a device
\* that already has a group, the group of the call included, is answered 409
\* and the device keeps its group.
C4_AddingAssignedDeviceConflicts ==
    ModifyResponse =>
        \A d \in response.add \cap Devices :
            response.pre.device_group[d] /= NoGroup
            => /\ response.status = 409
               /\ device_group[d] = response.pre.device_group[d]

\* the device is added again to the group it is already in
C4_Witness ==
    /\ ModifyResponse
    /\ response.status = 409
    /\ response.remove = {}
    /\ \E d \in Devices :
           /\ response.add = {d}
           /\ response.pre.device_group[d] = response.identifier
           /\ device_group[d] = response.identifier
           /\ response.identifier \in DOMAIN groups

\* C5: a membership change on a fetched group whose removals name an id that
\* is not a device of that group is answered 409 and no addition is applied.
C5_BadRemovalConflicts ==
    ( /\ ModifyResponse
      /\ \E d \in response.remove :
             \/ d \notin Devices
             \/ response.pre.device_group[d] /= response.identifier )
    => /\ response.status = 409
       /\ \A d \in response.add \cap Devices :
              device_group[d] = response.pre.device_group[d]

\* an unassigned device is in the additions of a batch with a bad removal
C5_Witness ==
    /\ ModifyResponse
    /\ response.status = 409
    /\ response.identifier \in DOMAIN response.pre.groups
    /\ \E d \in response.add \cap Devices :
           /\ d \notin response.remove
           /\ response.pre.device_group[d] = NoGroup
           /\ device_group[d] = NoGroup
    /\ \E d \in response.remove :
           d \notin Devices \/ response.pre.device_group[d] /= response.identifier

\* C3: when the group of a membership change that adds unassigned devices is
\* deleted between the existence check and the mutation, the change is
\* answered 404 and assigns no device; when the change wins, the deletion is
\* answered 409.
C3_MembershipAtomicWithExistenceCheck ==
    /\ ( /\ ModifyResponse
         /\ response.identifier \notin DOMAIN response.pre.groups
         /\ response.add /= {} /\ response.remove = {}
         /\ \A d \in response.add :
                d \in Devices /\ response.pre.device_group[d] = NoGroup )
       => /\ response.status = 404
          /\ device_group = response.pre.device_group
    /\ ( /\ response.op = "delete_one"
         /\ ~IsNone(response.group)
         /\ DevicesOf(response.pre, response.identifier) /= {} )
       => response.status = 409

\* C6: deleting a fetched group that has devices is answered 409 and changes
\* nothing; deleting a fetched group that has no device is answered 200 and
\* removes the group; deleting an absent group is answered 404.
C6_DeleteOnlyEmptyGroups ==
    response.op = "delete_one" =>
        LET g   == response.identifier
            pre == response.pre
        IN  /\ IsNone(response.group) <=> response.status = 404
            /\ response.status = 404 =>
                   /\ g \notin DOMAIN pre.groups
                   /\ Snapshot = pre
            /\ (~IsNone(response.group) /\ g \in DOMAIN pre.groups
                    /\ DevicesOf(pre, g) /= {})
               => /\ response.status = 409
                  /\ Snapshot = pre
            /\ (~IsNone(response.group) /\ g \in DOMAIN pre.groups
                    /\ DevicesOf(pre, g) = {})
               => /\ response.status = 200
                  /\ g \notin DOMAIN groups
                  /\ device_group = pre.device_group

\* a deletion is refused for a group with a device after another group, left
\* without devices, has been deleted
C6_Witness ==
    /\ response.op = "delete_one"
    /\ response.status = 409
    /\ DevicesOf(Snapshot, response.identifier) /= {}
    /\ response.identifier \in DOMAIN groups
    /\ \E g \in GroupIds : g \notin DOMAIN groups

\* the response comes from the second step of update_policy
PolicyResponse ==
    response.op = "update_policy" /\ "policy" \in DOMAIN response

\* C7: the stored policy of every group is the default string or a string
\* the parser accepts.
C7_StoredPolicyCompiles ==
    \A g \in DOMAIN groups :
        \/ groups[g].policy = DefaultPolicy
        \/ Compile(groups[g].policy).ok

\* a policy other than the default is stored, and a rejected one was refused
C7_Witness ==
    /\ PolicyResponse
    /\ ~Compile(response.policy).ok
    /\ response.identifier \in DOMAIN groups
    /\ groups[response.identifier].policy /= DefaultPolicy

\* C8: update_policy on a fetched group with a string the parser rejects is
\* answered 400 and changes nothing in the store.
C8_InvalidPolicyChangesNothing ==
    (PolicyResponse /\ ~Compile(response.policy).ok)
    => /\ response.status = 400
       /\ Snapshot = response.pre

\* a rejected string for a group that exists
C8_Witness ==
    /\ PolicyResponse
    /\ response.status = 400
    /\ response.policy = <<"bogus">>
    /\ response.identifier \in DOMAIN groups
    /\ groups[response.identifier].policy = DefaultPolicy

\* C10: update_policy is answered 200 only if the group existed when the
\* policy was written, and no policy is written for an id that has no group.
C10_PolicyAtomicWithExistenceCheck ==
    PolicyResponse =>
        /\ response.status = 200
           => response.identifier \in DOMAIN response.pre.groups
        /\ response.identifier \notin DOMAIN response.pre.groups
           => response.identifier \notin DOMAIN groups

\* the group row the handler fetched, as it is in the store s
UnchangedSinceFetch(s, group) ==
    \A row \in group :
        /\ row.id \in DOMAIN s.groups
        /\ ([id |-> row.id] @@ s.groups[row.id]) = row

\* C9: assign_package on a group whose row was modified or deleted after it
\* was fetched is answered 409 and leaves the package assignments alone.
C9_PackagesConflictOnConcurrentChange ==
    ( /\ response.op = "assign_package"
      /\ "packages" \in DOMAIN response
      /\ ~UnchangedSinceFetch(response.pre, response.group) )
    => /\ response.status = 409
       /\ assigned_packages = response.pre.assigned_packages

\* no call is in progress
Quiescent == \A c \in Clients : pc[c] = "idle"

\* C1: whenever no call is in progress, Device.group of every device is
\* empty or the id of exactly one group of the groups table, and no step
\* removes a group that a device is assigned to.
C1_DevicesReferenceExistingGroups ==
    /\ [](Quiescent =>
            \A d \in Devices :
                \/ device_group[d] = NoGroup
                \/ Cardinality({g \in DOMAIN groups :
                                    g = device_group[d]}) = 1)
    /\ [][\A g \in DOMAIN groups :
              g \notin DOMAIN groups' => fetch_assigned(g) = {}]_vars

\* a device is in a group after another group has been deleted
C1_Witness ==
    /\ Quiescent
    /\ \E d \in Devices : device_group[d] \in DOMAIN groups
    /\ \E g \in 1..(next_id - 1) : g \notin DOMAIN groups

\* C11: the view that fetch_one or fetch_all returns equals what the store
\* held of the requested group (of every group, for the list) at one
\* instant between the first store call of the read and its response
C11_ReadIsOfOneInstant ==
    response.op \in ReadOps =>
        \E seen \in instants[response.client] :
            seen = Read(response.client)

\* the response comes from the second store call of assign_package
PackageResponse ==
    response.op = "assign_package" /\ "packages" \in DOMAIN response

\* the ids of a sequence of package ids
IdsOf(packages) == {packages[i] : i \in 1..Len(packages)}

\* C12: after a successful SetPackages(g, P) the package set of g is exactly
\* the set of ids in P, whatever it was before
C12_SetPackagesReplaces ==
    PackageResponse /\ response.status = 200 =>
        /\ response.identifier \in DOMAIN assigned_packages
        /\ assigned_packages[response.identifier] = IdsOf(response.packages)

\* a successful call took away a package that the group had
C12_Witness ==
    /\ PackageResponse /\ response.status = 200
    /\ response.pre.assigned_packages[response.identifier]
           \ IdsOf(response.packages) /= {}
    /\ assigned_packages[response.identifier] = IdsOf(response.packages)

C14_PolicyStoredAsSent ==
    PolicyResponse /\ response.status = 200 =>
        \E group \in fetch_one_db(response.identifier) :
            group.policy = response.policy

\* C15: the step of create that inserts the row makes one new group, with the
\* metadata of the request, policy "no_update,", priority 25, no package and
\* no device, and changes no other group and no device; the response shows
\* the metadata of the request and the policy "no_update,"
C15_CreateYieldsDefaultGroup ==
    /\ [](response.op = "create" =>
            /\ response.body.metadata = response.request
            /\ response.body.policy = DefaultPolicy)
    /\ [][\A c \in Clients :
            pc[c] = "idle" /\ pc'[c] = "create_packages" =>
                LET g == local'[c].identifier
                IN  /\ g \notin DOMAIN groups
                    /\ DOMAIN groups' = DOMAIN groups \cup {g}
                    /\ groups'[g].info = local'[c].metadata
                    /\ groups'[g].policy = DefaultPolicy
                    /\ groups'[g].priority = 25
                    /\ assigned_packages'[g] = {}
                    /\ \A d \in Devices : device_group'[d] /= g
                    /\ \A h \in DOMAIN groups :
                           /\ groups'[h] = groups[h]
                           /\ assigned_packages'[h] = assigned_packages[h]
                    /\ device_group' = device_group]_vars

\* a group with metadata has just been inserted next to a group that has a
\* device
C15_Witness ==
    \E c \in Clients :
        /\ pc[c] = "create_packages"
        /\ local[c].metadata = "{description: A test group}"
        /\ local[c].identifier \in DOMAIN groups
        /\ groups[local[c].identifier].info = "{description: A test group}"
        /\ \E d \in Devices :
               /\ device_group[d] \in DOMAIN groups
               /\ device_group[d] /= local[c].identifier

RemovalsFirst(s, g, add, remove) ==
    LET removed == [d \in Devices |->
                      IF d \in remove THEN NoGroup ELSE s.device_group[d]]
    IN  [d \in Devices |-> IF d \in add THEN g ELSE removed[d]]

TargetedOps == {"fetch_one", "delete_one", "change_assigned",
                "assign_package", "update_policy"}
TargetedPcs == {"fetch_one_packages", "delete_one_delete",
                "change_assigned_modify", "assign_package_modify",
                "update_policy_update"}

\* C18: an operation on a group id goes on to its request body only when the
\* group exists; when the group does not exist the call is answered 404 at
\* once, before anything of the body is looked at, and the store is left as
\* it was
C18_MissingGroupIsNotFoundFirst ==
    [][\A c \in Clients :
          pc[c] = "idle" =>
              /\ pc'[c] \in TargetedPcs =>
                     /\ local'[c].identifier \in DOMAIN groups
                     /\ store' = store
              /\ ( /\ response = NoResponse
                   /\ response'.op \in TargetedOps
                   /\ response'.client = c )
                 => /\ response'.identifier \notin DOMAIN groups
                    /\ response'.status = 404
                    /\ store' = store]_vars

\* SetPolicy was answered 404 for a group that has been deleted, next to a
\* group that exists
C18_Witness ==
    /\ response.op = "update_policy" /\ response.status = 404
    /\ response.identifier \notin DOMAIN groups
    /\ response.identifier \in GroupIds
    /\ DOMAIN groups /= {}
    /\ Snapshot = response.pre

====
